---- MODULE Spec2Model ----
(***************************************************************************)
(* Lunaa: a Tk chat window (ChatUI) over a streaming chat session          *)
(* (OllamaChat).  Two actors: the Tk event loop (UI thread) and the worker *)
(* threads on_send starts.  A worker drains the ask_stream generator and   *)
(* posts callbacks to the event loop with after(0, ...).                   *)
(*                                                                         *)
(* Texts are sequences of tokens: "" is << >>, a + b is a \o b.            *)
(***************************************************************************)
EXTENDS Naturals, Sequences, FiniteSets

VARIABLES
    system_prompt,  \* constructor parameter of OllamaChat
    history,        \* OllamaChat.history
    entry,          \* text held by the ttk.Entry widget
    enabled,        \* state of entry and send_btn ("normal" = TRUE)
    transcript,     \* contents of the tk.Text widget, one element per insert
    afterq,         \* callbacks posted with after(0, ...), not yet run
    threads,        \* the worker threads started so far, in start order
    delivered,      \* number of records the daemon has streamed so far
    log             \* per request: what was observed of it (history variable)

vars == <<system_prompt, history, entry, enabled, transcript, afterq, threads,
         delivered, log>>

----------------------------------------------------------------------------
\* Bounds of the model
MaxRequests == 2      \* requests started in one behaviour
MaxRecords == 2       \* records the daemon streams in one behaviour

\* Input alphabets
DEFAULT_MODEL == "llama3.1"
Prompts == { << >>, <<"You are terse.">> }
Inputs == { << >>, <<" ">>, <<"a">>, <<" ", "b", " ">> }
Fragments == { <<"x">>, <<"y">> }
Errors == { "connection refused" }
\* a daemon record: chunk["message"]["content"], either key possibly absent
Records == { [has |-> TRUE, content |-> f] : f \in Fragments \cup { << >> } }
             \cup { [has |-> FALSE, content |-> << >>] }

----------------------------------------------------------------------------
\* Pure helpers

IsSpace(c) == c = " "

RECURSIVE lstrip(_)
lstrip(s) == IF s # << >> /\ IsSpace(Head(s)) THEN lstrip(Tail(s)) ELSE s

RECURSIVE rstrip(_)
rstrip(s) ==
    IF s # << >> /\ IsSpace(s[Len(s)]) THEN rstrip(SubSeq(s, 1, Len(s) - 1)) ELSE s

\* faulty variant of strip: the text is taken as typed
NoStrip(s) == s
\* str.strip()
strip(s) == rstrip(lstrip(s))

\* "".join(parts)
RECURSIVE join(_)
join(parts) == IF parts = << >> THEN << >> ELSE Head(parts) \o join(Tail(parts))

Turn(role, content) == [role |-> role, content |-> content]

\* chunk.get("message", {}).get("content", "")
Delta(chunk) == IF chunk.has THEN chunk.content ELSE << >>

\* faulty variant of Truthy: the test is "delta is not None"
NotNone(delta) == TRUE
\* if delta:
Truthy(delta) == delta # << >>

\* faulty variant of ErrorChunk: the message leaves out the text of e
ErrNoText(e, model) ==
    <<"[Error] ", "\nMake sure the Ollama daemon is running and the model '",
      model, "' is pulled.">>
\* f"[Error] {e}\nMake sure the Ollama daemon is running and the model '{self.model}' is pulled."
ErrorChunk(e, model) ==
    <<"[Error] ", e, "\nMake sure the Ollama daemon is running and the model '",
      model, "' is pulled.">>

----------------------------------------------------------------------------
\* OllamaChat: the operations on history

\* OllamaChat.__init__
InitHistory(prompt) == IF prompt # << >> THEN <<Turn("system", prompt)>> ELSE << >>

\* faulty variant of AppendUser: nothing is appended
AppendUserNone(h, user_text) == h
\* self.history.append({"role": "user", "content": user_text})
AppendUser(h, user_text) == Append(h, Turn("user", user_text))

\* faulty variants of Pop: no rollback; a rollback of two turns
PopNothing(h) == h
PopTwo(h) == SubSeq(h, 1, Len(h) - 2)
\* self.history.pop()
Pop(h) == SubSeq(h, 1, Len(h) - 1)

\* faulty variants of Commit: only the last fragment is kept; nothing is appended
CommitLast(h, accumulated) ==
    Append(h, Turn("assistant",
                   IF accumulated = << >> THEN << >> ELSE accumulated[Len(accumulated)]))
CommitNothing(h, accumulated) == h
\* self.history.append({"role": "assistant", "content": "".join(accumulated)})
Commit(h, accumulated) == Append(h, Turn("assistant", join(accumulated)))

----------------------------------------------------------------------------
\* ChatUI: widgets and the event loop

\* faulty variant of EntryDelete: the entry keeps its text
EntryKept(e) == e
\* self.entry.delete(0, "end")
EntryDelete(e) == << >>

\* _append_user(text): _append(f"You: {text}", "user"), which adds "\n"
UserLine(text) == <<"You: ">> \o text \o <<"\n">>

\* faulty variant of NextCallback: the callback posted last runs first
LastPosted(q) == Len(q)
\* the callback the event loop runs next: after(0, ...) callbacks run in the
\* order they were posted
NextCallback(q) == 1

Callback(cb, arg, t) == [cb |-> cb, arg |-> arg, req |-> t]

\* self.after(0, cb, arg), called by worker t
After(q, cb, arg, t) == Append(q, Callback(cb, arg, t))

RemoveAt(q, i) == SubSeq(q, 1, i - 1) \o SubSeq(q, i + 1, Len(q))

\* threading.Thread(target=self._stream_response, args=(text,)).start()
NewThread(text) ==
    [pc |-> "header", user_text |-> text, accumulated |-> << >>, e |-> ""]

\* what is recorded of a request: the history when it was submitted, the
\* messages argument of ollama.chat, the chunks ask_stream yielded, the outcome
NewLog(h) ==
    [before |-> h, called |-> FALSE, messages |-> << >>, yielded |-> << >>,
     outcome |-> "pending"]

\* faulty variants of OnRaise: no except clause, the exception ends the thread;
\* an except clause that neither reports nor rolls back
SkipRollback(th, e) == [th EXCEPT !.pc = "enable", !.e = e]
Propagate(th, e) == [th EXCEPT !.pc = "dead"]
\* an exception raised by ollama.chat or by its stream, inside the try block:
\* control goes to the except clause with e bound
OnRaise(th, e) == [th EXCEPT !.pc = "except", !.e = e]

----------------------------------------------------------------------------
Init ==
    /\ system_prompt \in Prompts
    /\ history = InitHistory(system_prompt)
    /\ entry = << >>
    /\ enabled = TRUE
    /\ transcript = << [tag |-> "meta", req |-> 0,
                        text |-> <<"Using model: ", DEFAULT_MODEL,
                                   "\nType your message and press Enter.\n", "\n">>] >>
    /\ afterq = << >>
    /\ threads = << >>
    /\ delivered = 0
    /\ log = << >>

----------------------------------------------------------------------------
\* UI thread

\* the user edits the entry; a disabled ttk.Entry rejects edits
Type ==
    /\ enabled
    /\ \E s \in Inputs : entry' = s /\ entry' # entry
    /\ UNCHANGED <<system_prompt, history, enabled, transcript, afterq, threads, delivered, log>>

\* ChatUI.on_send, bound to <Return> on the entry and to the Send button.
\* The <Return> binding also fires while the entry is disabled.
on_send ==
    LET text == strip(entry) IN
    IF text = << >>
    THEN UNCHANGED vars
    ELSE /\ Len(threads) < MaxRequests
         /\ entry' = EntryDelete(entry)
         /\ transcript' = Append(transcript,
                [tag |-> "user", req |-> Len(threads) + 1, text |-> UserLine(text)])
         /\ enabled' = FALSE
         /\ threads' = Append(threads, NewThread(text))
         /\ log' = Append(log, NewLog(history))
         /\ UNCHANGED <<system_prompt, history, afterq, delivered>>

\* the event loop runs one posted callback
RunAfter ==
    /\ afterq # << >>
    /\ LET i == NextCallback(afterq)
           c == afterq[i]
       IN /\ afterq' = RemoveAt(afterq, i)
          /\ IF c.cb = "_append_assistant_header"
             THEN /\ transcript' = Append(transcript,
                        [tag |-> "header", req |-> c.req, text |-> <<"Assistant: ">>])
                  /\ UNCHANGED enabled
             ELSE IF c.cb = "_append_assistant_chunk"
             THEN /\ transcript' = Append(transcript,
                        [tag |-> "chunk", req |-> c.req, text |-> c.arg])
                  /\ UNCHANGED enabled
             ELSE /\ enabled' = c.arg
                  /\ UNCHANGED transcript
    /\ UNCHANGED <<system_prompt, history, entry, threads, delivered, log>>

----------------------------------------------------------------------------
\* Worker thread t: ChatUI._stream_response, do_stream and the body of
\* OllamaChat.ask_stream it drives

At(t, pc) == t \in DOMAIN threads /\ threads[t].pc = pc

\* self.after(0, self._append_assistant_header)
W_header(t) ==
    /\ At(t, "header")
    /\ afterq' = After(afterq, "_append_assistant_header", << >>, t)
    /\ threads' = [threads EXCEPT ![t].pc = "call"]
    /\ UNCHANGED <<system_prompt, history, entry, enabled, transcript, delivered, log>>

\* self.chat.ask_stream(user_text): calling a generator function builds the
\* generator object; none of its body has run yet
W_ask_stream(t) ==
    /\ At(t, "call")
    /\ threads' = [threads EXCEPT ![t].pc = "start"]
    /\ UNCHANGED <<system_prompt, history, entry, enabled, transcript, afterq,
                   delivered, log>>

\* first advance of the generator by the for loop: lines 37-38
W_start(t) ==
    /\ At(t, "start")
    /\ history' = AppendUser(history, threads[t].user_text)
    /\ threads' = [threads EXCEPT ![t].pc = "chat", ![t].accumulated = << >>]
    /\ UNCHANGED <<system_prompt, entry, enabled, transcript, afterq, delivered, log>>

\* ollama.chat(model=self.model, messages=self.history, stream=True)
W_chat(t) ==
    /\ At(t, "chat")
    /\ log' = [log EXCEPT ![t].called = TRUE, ![t].messages = history]
    /\ \/ threads' = [threads EXCEPT ![t].pc = "iter"]
       \/ \E e \in Errors : threads' = [threads EXCEPT ![t] = OnRaise(@, e)]
    /\ UNCHANGED <<system_prompt, history, entry, enabled, transcript, afterq, delivered>>

\* one turn of the for loop over the daemon's stream: a record (whose
\* non-empty delta is accumulated, yielded and posted by do_stream), the end
\* of the stream, or an exception
W_iter(t) ==
    /\ At(t, "iter")
    /\ \/ /\ delivered < MaxRecords
          /\ delivered' = delivered + 1
          /\ \E chunk \in Records :
               LET delta == Delta(chunk) IN
               IF Truthy(delta)
               THEN /\ threads' = [threads EXCEPT ![t].accumulated = Append(@, delta)]
                    /\ afterq' = After(afterq, "_append_assistant_chunk", delta, t)
                    /\ log' = [log EXCEPT ![t].yielded = Append(@, delta)]
               ELSE UNCHANGED <<threads, afterq, log>>
       \/ /\ threads' = [threads EXCEPT ![t].pc = "commit"]
          /\ UNCHANGED <<afterq, delivered, log>>
       \/ /\ \E e \in Errors : threads' = [threads EXCEPT ![t] = OnRaise(@, e)]
          /\ UNCHANGED <<afterq, delivered, log>>
    /\ UNCHANGED <<system_prompt, history, entry, enabled, transcript>>

\* except clause, lines 49-50: build err, yield it; do_stream posts it
W_except(t) ==
    /\ At(t, "except")
    /\ LET err == ErrorChunk(threads[t].e, DEFAULT_MODEL) IN
          /\ afterq' = After(afterq, "_append_assistant_chunk", err, t)
          /\ log' = [log EXCEPT ![t].yielded = Append(@, err)]
    /\ threads' = [threads EXCEPT ![t].pc = "rollback"]
    /\ UNCHANGED <<system_prompt, history, entry, enabled, transcript, delivered>>

\* lines 52-53: self.history.pop(); return.  pop() of an empty list raises
\* IndexError, which leaves the generator and ends the thread.
W_rollback(t) ==
    /\ At(t, "rollback")
    /\ IF history = << >>
       THEN /\ threads' = [threads EXCEPT ![t].pc = "dead"]
            /\ UNCHANGED <<history, log>>
       ELSE /\ history' = Pop(history)
            /\ threads' = [threads EXCEPT ![t].pc = "enable"]
            /\ log' = [log EXCEPT ![t].outcome = "fail"]
    /\ UNCHANGED <<system_prompt, entry, enabled, transcript, afterq, delivered>>

\* lines 56-57, then the generator is exhausted
W_commit(t) ==
    /\ At(t, "commit")
    /\ history' = Commit(history, threads[t].accumulated)
    /\ threads' = [threads EXCEPT ![t].pc = "enable"]
    /\ log' = [log EXCEPT ![t].outcome = "ok"]
    /\ UNCHANGED <<system_prompt, entry, enabled, transcript, afterq, delivered>>

\* faulty variant of W_enable: the worker calls set_input_enabled(True) itself
W_enable_direct(t) ==
    /\ At(t, "enable")
    /\ enabled' = TRUE
    /\ threads' = [threads EXCEPT ![t].pc = "done"]
    /\ UNCHANGED <<system_prompt, history, entry, transcript, afterq, delivered, log>>

\* self.after(0, self.set_input_enabled, True); the thread ends
W_enable(t) ==
    /\ At(t, "enable")
    /\ afterq' = After(afterq, "set_input_enabled", TRUE, t)
    /\ threads' = [threads EXCEPT ![t].pc = "done"]
    /\ UNCHANGED <<system_prompt, history, entry, enabled, transcript, delivered, log>>

Worker(t) ==
    \/ W_header(t)
    \/ W_ask_stream(t)
    \/ W_start(t)
    \/ W_chat(t)
    \/ W_iter(t)
    \/ W_except(t)
    \/ W_rollback(t)
    \/ W_commit(t)
    \/ W_enable(t)

Next ==
    \/ Type
    \/ on_send
    \/ RunAfter
    \/ \E t \in 1..MaxRequests : Worker(t)

Spec == Init /\ [][Next]_vars

\* The threads and the event loop are scheduled fairly, and the daemon call
\* returns or raises (W_iter ends after at most MaxRecords records).
FairSpec ==
    /\ Spec
    /\ WF_vars(RunAfter)
    /\ \A t \in 1..MaxRequests : WF_vars(Worker(t))

----------------------------------------------------------------------------
\* Vocabulary of the properties

HasSystem == system_prompt # << >>
SysN == IF HasSystem THEN 1 ELSE 0

Requests == DOMAIN threads

\* ask_stream of request t has not ended yet
InFlight(t) ==
    threads[t].pc \in {"header", "call", "start", "chat", "iter", "except",
                       "rollback", "commit"}

\* the sequence of request t has ended
Ended(t) == threads[t].pc \in {"enable", "done"}

\* the re-enable callback of request t has not run yet
EnableQueued(t) ==
    \E i \in 1..Len(afterq) : afterq[i].cb = "set_input_enabled" /\ afterq[i].req = t
Unfinished(t) == threads[t].pc # "done" \/ EnableQueued(t)

UserTurn(t) == Turn("user", threads[t].user_text)

Texts(s) == [i \in 1..Len(s) |-> s[i].text]
Args(s) == [i \in 1..Len(s) |-> s[i].arg]

\* chunk texts of request t already appended to the transcript, in order
Shown(t) ==
    Texts(SelectSeq(transcript, LAMBDA x : x.tag = "chunk" /\ x.req = t))

\* chunk texts of request t posted and not yet appended, in order
Queued(t) ==
    Args(SelectSeq(afterq, LAMBDA c : c.cb = "_append_assistant_chunk" /\ c.req = t))

Contains(c, tok) == \E i \in 1..Len(c) : c[i] = tok
IsErr(c) == Contains(c, "[Error] ")
Fragment(c) == ~IsErr(c)

NumAssistant(h) == Cardinality({i \in 1..Len(h) : h[i].role = "assistant"})

----------------------------------------------------------------------------
\* C1: history is always an optional system turn, then complete
\* (user, assistant) pairs, then at most one unpaired user turn, and an
\* unpaired user turn is there only while a request is in flight.
C1_HistoryShape ==
    /\ HasSystem => Len(history) >= 1 /\ history[1] = Turn("system", system_prompt)
    /\ \A i \in 1..(Len(history) - SysN) :
          history[SysN + i].role = IF i % 2 = 1 THEN "user" ELSE "assistant"
    /\ (Len(history) - SysN) % 2 = 1 => \E t \in Requests : InFlight(t)

C1_Witness ==
    /\ Len(threads) = 2
    /\ log[1].outcome = "fail"
    /\ log[2].outcome = "ok"
    /\ \A t \in Requests : ~InFlight(t)
    /\ Len(history) = SysN + 2

\* C2: when a request has failed and its sequence has ended, history equals
\* the history before the request, whatever was yielded before the failure.
C2_FailureRestoresHistory ==
    \A t \in Requests :
        (Ended(t) /\ log[t].outcome = "fail" /\ t = Len(threads))
            => history = log[t].before

C2_Witness ==
    \E t \in Requests :
        /\ threads[t].pc = "enable"
        /\ log[t].outcome = "fail"
        /\ Len(log[t].yielded) >= 2
        /\ log[t].before # << >>
        /\ history = log[t].before

\* C3: after N requests that all succeeded, history has SysN + 2N turns, and
\* the k-th pair is the k-th submitted text followed by an assistant turn.
C3_SuccessLength ==
    (\A t \in Requests : log[t].outcome = "ok") =>
        /\ Len(history) = SysN + 2 * Len(threads)
        /\ \A k \in Requests :
              /\ history[SysN + 2 * k - 1] = UserTurn(k)
              /\ history[SysN + 2 * k].role = "assistant"

C3_Witness ==
    /\ Len(threads) = 2
    /\ \A t \in Requests : log[t].outcome = "ok"
    /\ threads[1].user_text # threads[2].user_text
    /\ Len(history) = SysN + 4

\* C4: at most one request is unfinished (worker alive, or its re-enable not
\* yet run) at any time, and input is disabled for as long as one is.
C4_SingleInFlight ==
    /\ Cardinality({t \in Requests : Unfinished(t)}) <= 1
    /\ (\E t \in Requests : Unfinished(t)) => ~enabled

C4_Witness ==
    /\ Len(threads) = 2
    /\ threads[2].pc = "iter"
    /\ ~Unfinished(1)
    /\ ~enabled

\* C5: the chunks of a request reach the transcript in the order the daemon
\* produced them, none lost or repeated, and the chunks of one request are
\* contiguous among the chunk appends.
C5_ChunkOrder ==
    /\ \A t \in Requests :
          SelectSeq(Shown(t) \o Queued(t), Fragment) = threads[t].accumulated
    /\ LET chunks == SelectSeq(transcript, LAMBDA x : x.tag = "chunk") IN
          \A i, k \in 1..Len(chunks) :
              (i < k /\ chunks[i].req = chunks[k].req) =>
                  \A j \in i..k : chunks[j].req = chunks[i].req

C5_Witness ==
    /\ Len(threads) = 2
    /\ Len(Shown(1)) >= 2
    /\ Shown(1)[1] # Shown(1)[2]
    /\ Shown(1) = threads[1].accumulated
    /\ Len(Shown(2)) >= 1

\* C6: a failed request yields exactly one error chunk, as the last element
\* of its sequence, holding the error text and the model name; no assistant
\* turn is appended for it; a successful request yields no error chunk.
C6_ErrorChunk ==
    /\ \A t \in Requests :
          LET y == log[t].yielded
              errs == SelectSeq(y, IsErr)
          IN /\ log[t].outcome = "fail" =>
                    /\ Len(errs) = 1
                    /\ IsErr(y[Len(y)])
                    /\ threads[t].e \in Errors
                    /\ Contains(y[Len(y)], threads[t].e)
                    /\ Contains(y[Len(y)], DEFAULT_MODEL)
                    /\ SubSeq(y, 1, Len(y) - 1) = threads[t].accumulated
                    /\ Ended(t)
             /\ log[t].outcome = "ok" => errs = << >>
             /\ log[t].outcome = "pending" /\ errs # << >> =>
                    /\ threads[t].pc = "rollback"
                    /\ Len(errs) = 1
                    /\ IsErr(y[Len(y)])
    /\ NumAssistant(history) = Cardinality({t \in Requests : log[t].outcome = "ok"})

C6_Witness ==
    \E t \in Requests :
        /\ log[t].outcome = "fail"
        /\ threads[t].pc = "done"
        /\ Len(log[t].yielded) = 2
        /\ Shown(t) = log[t].yielded
        /\ NumAssistant(history) = 0

\* C7: under fair scheduling, whenever input is disabled or a request is
\* unfinished, a state follows in which every request started has had its
\* re-enable callback run and input is enabled, whether it succeeded or failed.
C7_EventuallyReenabled ==
    (~enabled \/ \E t \in Requests : Unfinished(t))
        ~> (enabled /\ \A t \in Requests : ~Unfinished(t))

C7_Witness ==
    /\ Len(threads) = 2
    /\ log[1].outcome = "fail"
    /\ log[2].outcome = "ok"
    /\ \A t \in Requests : ~Unfinished(t)
    /\ enabled

\* C8: a request that completes normally appends exactly one assistant turn,
\* right after its user turn, whose content is the concatenation in order of
\* the fragments yielded, which is also the text appended to the transcript.
C8_CommitJoinsFragments ==
    \A t \in Requests :
        (Ended(t) /\ log[t].outcome = "ok") =>
            LET p == Len(log[t].before) IN
            /\ Len(history) >= p + 2
            /\ SubSeq(history, 1, p) = log[t].before
            /\ history[p + 1] = UserTurn(t)
            /\ history[p + 2] = Turn("assistant", join(log[t].yielded))
            /\ t = Len(threads) => Len(history) = p + 2
            /\ join(Shown(t) \o Queued(t)) = history[p + 2].content

C8_Witness ==
    \E t \in Requests :
        /\ log[t].outcome = "ok"
        /\ threads[t].pc = "done"
        /\ Len(log[t].yielded) = 2
        /\ log[t].yielded[1] # log[t].yielded[2]
        /\ Shown(t) = log[t].yielded
        /\ history[Len(history)].content = log[t].yielded[1] \o log[t].yielded[2]

\* C9: the messages handed to the daemon for a request are the optional
\* system turn, the pairs of the earlier successful requests, and this
\* request's user turn last; nothing of a failed request is in them.
RECURSIVE PairsBefore(_)
PairsBefore(t) ==
    IF t <= 1 THEN << >>
    ELSE PairsBefore(t - 1) \o
         (IF log[t - 1].outcome = "ok"
          THEN <<UserTurn(t - 1), Turn("assistant", join(threads[t - 1].accumulated))>>
          ELSE << >>)

C9_Messages ==
    \A t \in Requests :
        log[t].called =>
            /\ log[t].messages =
                  (IF HasSystem THEN <<Turn("system", system_prompt)>> ELSE << >>)
                  \o PairsBefore(t) \o <<UserTurn(t)>>
            /\ (/\ t > 1
                /\ log[t - 1].outcome = "fail"
                /\ threads[t - 1].user_text = threads[t].user_text)
                   => log[t].messages = log[t - 1].messages

C9_Witness ==
    /\ Len(threads) = 2
    /\ log[1].outcome = "fail"
    /\ Len(log[1].yielded) = 2
    /\ log[2].called
    /\ threads[1].user_text = threads[2].user_text
    /\ log[2].messages = log[1].messages

\* C10 as stated: once ask_stream(user_text) has been called, the user turn
\* is the last element of history.
C10_AppendOnCall ==
    \A t \in Requests :
        threads[t].pc \in {"start", "chat"} =>
            /\ history # << >>
            /\ history[Len(history)] = UserTurn(t)

\* C10 amended: the user turn is appended by the first advance of the
\* sequence; until then the call has changed nothing, and when the turn is
\* appended the daemon has not been invoked and no chunk has been yielded.
C10_AppendOnFirstAdvance ==
    \A t \in Requests :
        /\ threads[t].pc \in {"header", "call", "start"} =>
              /\ history = log[t].before
              /\ ~log[t].called /\ log[t].yielded = << >>
        /\ threads[t].pc = "chat" =>
              /\ history = Append(log[t].before, UserTurn(t))
              /\ ~log[t].called /\ log[t].yielded = << >>
        /\ (log[t].called \/ log[t].yielded # << >>) /\ InFlight(t) =>
              history = Append(log[t].before, UserTurn(t))

C10_Witness ==
    \E t \in Requests :
        /\ threads[t].pc = "chat"
        /\ history = Append(log[t].before, UserTurn(t))
        /\ ~log[t].called
        /\ log[t].before # << >>

----------------------------------------------------------------------------
\* the kinds of the UI updates of request t, those already run on the
\* transcript followed by those still posted
UpdateKinds(t) ==
    LET ran == SelectSeq(transcript,
                         LAMBDA x : x.req = t /\ x.tag \in {"header", "chunk"})
        posted == SelectSeq(afterq, LAMBDA c : c.req = t)
    IN [i \in 1..Len(ran) |-> ran[i].tag]
       \o [i \in 1..Len(posted) |->
              IF posted[i].cb = "_append_assistant_header" THEN "header"
              ELSE IF posted[i].cb = "_append_assistant_chunk" THEN "chunk"
              ELSE "enable"]

HeaderShown(t) ==
    \E i \in 1..Len(transcript) : transcript[i].tag = "header" /\ transcript[i].req = t

\* C11: the UI thread sees the updates of a request in the order header,
\* chunks (the error chunk included), re-enable: the header is first, the
\* re-enable is last, and once the re-enable has run the header and every
\* chunk yielded for the request are on the transcript.
C11_UpdateOrder ==
    \A t \in Requests :
        LET kinds == UpdateKinds(t) IN
        /\ \A i \in 1..Len(kinds) : (kinds[i] = "header") <=> (i = 1)
        /\ \A i \in 1..Len(kinds) : kinds[i] = "enable" => i = Len(kinds)
        /\ ~Unfinished(t) =>
              /\ HeaderShown(t)
              /\ Queued(t) = << >>
              /\ Shown(t) = log[t].yielded

C11_Witness ==
    \E t \in Requests :
        /\ ~Unfinished(t)
        /\ enabled
        /\ log[t].outcome = "fail"
        /\ Len(log[t].yielded) = 3
        /\ Shown(t) = log[t].yielded
        /\ HeaderShown(t)

\* C12: with a system prompt, the system turn of the constructor is always
\* the first element of history and the only system turn; without one,
\* history never holds a system turn, and a failed request on an empty
\* history leaves it empty.
C12_SystemTurn ==
    /\ HasSystem =>
          /\ Len(history) >= 1
          /\ history[1] = Turn("system", system_prompt)
          /\ \A i \in 2..Len(history) : history[i].role # "system"
    /\ ~HasSystem =>
          /\ \A i \in 1..Len(history) : history[i].role # "system"
          /\ \A t \in Requests :
                (/\ Ended(t) /\ t = Len(threads)
                 /\ log[t].outcome = "fail" /\ log[t].before = << >>)
                    => history = << >>

C12_Witness ==
    /\ HasSystem
    /\ Len(threads) = 2
    /\ log[1].outcome = "fail"
    /\ log[2].outcome = "fail"
    /\ Ended(2)
    /\ history = <<Turn("system", system_prompt)>>

\* C13: after any run of consecutive failed requests, history is what it was
\* before the first of them.
C13_RollbackIdempotent ==
    \A a, b \in Requests :
        (/\ a < b /\ b = Len(threads) /\ Ended(b)
         /\ \A k \in a..b : log[k].outcome = "fail")
            => history = log[a].before

C13_Witness ==
    /\ Len(threads) = 2
    /\ log[1].outcome = "fail"
    /\ log[2].outcome = "fail"
    /\ Len(log[1].yielded) = 2
    /\ Len(log[2].yielded) = 2
    /\ threads[2].pc = "done"
    /\ history = log[1].before

----------------------------------------------------------------------------
IsPrefix(a, b) == Len(a) <= Len(b) /\ SubSeq(b, 1, Len(a)) = a

\* C14: every step leaves history as it is, appends one turn at its end, or
\* removes its last turn; the histories recorded when requests were submitted
\* extend one another, and the history with no request in flight extends them.
C14_AppendOrRemoveLast ==
    /\ [][\/ history' = history
          \/ /\ Len(history') = Len(history) + 1
             /\ SubSeq(history', 1, Len(history)) = history
          \/ /\ Len(history) >= 1
             /\ history' = SubSeq(history, 1, Len(history) - 1)]_vars
    /\ [](\A a, b \in Requests :
             a <= b =>
                /\ IsPrefix(log[a].before, log[b].before)
                /\ (\A t \in Requests : ~InFlight(t)) => IsPrefix(log[b].before, history))

C14_Witness ==
    /\ Len(threads) = 2
    /\ log[1].outcome = "ok"
    /\ log[2].outcome = "fail"
    /\ Ended(2)
    /\ log[1].before # log[2].before
    /\ IsPrefix(log[1].before, log[2].before)
    /\ history = log[2].before

\* C15: on_send with an empty or whitespace-only entry does nothing.  While
\* the entry is blank no step starts a worker; and when nothing else can run
\* (no live worker, no posted callback) no step changes history, the
\* transcript, the enabled flag, the threads or ask_stream's record.
IsBlank(s) == \A i \in 1..Len(s) : s[i] = " "
Idle == afterq = << >> /\ \A t \in Requests : threads[t].pc = "done"

C15_BlankSendNoOp ==
    [][IsBlank(entry) =>
          /\ Len(threads') = Len(threads)
          /\ Len(log') = Len(log)
          /\ Idle => UNCHANGED <<history, transcript, enabled, threads, afterq, log>>]_vars

C15_Witness ==
    /\ entry = <<" ">>
    /\ Idle
    /\ Len(threads) = 1
    /\ enabled

\* C16: a UI-thread step (Type, on_send, RunAfter) leaves history unchanged;
\* a worker step leaves the transcript, the enabled flag and the entry
\* unchanged and at most posts one callback at the end of the queue.
C16_StateOwnership ==
    [][/\ (Type \/ on_send \/ RunAfter) => history' = history
       /\ (\E t \in 1..MaxRequests : Worker(t)) =>
             /\ UNCHANGED <<transcript, enabled, entry>>
             /\ \/ afterq' = afterq
                \/ /\ Len(afterq') = Len(afterq) + 1
                   /\ SubSeq(afterq', 1, Len(afterq)) = afterq
       /\ history' # history =>
             /\ Len(threads') = Len(threads)
             /\ threads' # threads
       /\ (transcript' # transcript \/ enabled' # enabled) =>
             \A t \in Requests : threads'[t] = threads[t]]_vars

C16_Witness ==
    /\ Len(threads) = 1
    /\ threads[1].pc = "done"
    /\ log[1].outcome = "ok"
    /\ Len(Shown(1)) = 2
    /\ enabled
    /\ Len(history) = SysN + 2

----------------------------------------------------------------------------
LastIsUser(h) == h # << >> /\ h[Len(h)].role = "user"

\* C17: when the re-enable of a request has been posted, the request has been
\* committed or rolled back and history does not end with a user turn; so
\* whenever input is enabled history is reconciled, and every request was
\* submitted on a history that does not end with a user turn.
C17_ReconcileBeforeEnable ==
    /\ \A t \in Requests :
          (EnableQueued(t) \/ threads[t].pc = "done") =>
              /\ log[t].outcome \in {"ok", "fail"}
              /\ t = Len(threads) => ~LastIsUser(history)
    /\ enabled => ~LastIsUser(history)
    /\ \A t \in Requests : ~LastIsUser(log[t].before)

C17_Witness ==
    /\ Len(threads) = 2
    /\ log[1].outcome = "fail"
    /\ Len(log[1].yielded) = 2
    /\ threads[2].pc = "start"
    /\ log[2].before = log[1].before
    /\ history = log[2].before

\* C18: a record with an empty or missing content makes no chunk: every
\* accumulated fragment, every posted chunk and every chunk on the transcript
\* is non-empty, and there are no more fragments than records streamed.  A
\* request whose stream ends without a fragment succeeds: no chunk is shown
\* or posted for it, and history grows by its user turn and an assistant turn
\* with empty content.
RECURSIVE NumFragments(_)
NumFragments(t) ==
    IF t = 0 THEN 0 ELSE NumFragments(t - 1) + Len(threads[t].accumulated)

C18_EmptyRecords ==
    /\ \A t \in Requests :
          \A i \in 1..Len(threads[t].accumulated) : threads[t].accumulated[i] # << >>
    /\ \A i \in 1..Len(afterq) :
          afterq[i].cb = "_append_assistant_chunk" => afterq[i].arg # << >>
    /\ \A i \in 1..Len(transcript) :
          transcript[i].tag = "chunk" => transcript[i].text # << >>
    /\ NumFragments(Len(threads)) <= delivered
    /\ \A t \in Requests :
          (Ended(t) /\ log[t].outcome = "ok" /\ threads[t].accumulated = << >>) =>
              LET p == Len(log[t].before) IN
              /\ Shown(t) \o Queued(t) = << >>
              /\ Len(history) >= p + 2
              /\ history[p + 1] = UserTurn(t)
              /\ history[p + 2] = Turn("assistant", << >>)
              /\ t = Len(threads) => history = log[t].before \o
                                        <<UserTurn(t), Turn("assistant", << >>)>>

C18_Witness ==
    /\ Len(threads) = 1
    /\ delivered = 2
    /\ threads[1].pc = "done"
    /\ afterq = << >>
    /\ log[1].outcome = "ok"
    /\ threads[1].accumulated = << >>
    /\ Shown(1) = << >>
    /\ Len(history) = Len(log[1].before) + 2

====
